---- MODULE Spec2Model ----
(***************************************************************************)
(* A model of src/web/base_controller.go: package web (the controller's    *)
(* response helpers, ParseAndValidate and CatchPanic) and package localize *)
(* (LoadJSON, LoadFiles and the directory walk).                           *)
(***************************************************************************)
EXTENDS Integers, Sequences, FiniteSets, TLC

VARIABLES
    pc,          \* position of the request handler: idle, running, panicking, returning, done
    ctxStatus,   \* this.Ctx.Output status of the current response
    statusSets,  \* number of Ctx.Output.SetStatus calls in the current request
    cacheHeader, \* value of the Cache-control header, <<>> when not set
    emitted,     \* the ServeJson emissions of the current request, in order
    outErr,      \* the caller's error variable that CatchPanic's err points to
    call,        \* the last controller operation, its input and what it saw on entry
    env,         \* the process environment of package localize: files, PWD, GOPATH
    store,       \* the translations registered in the i18n bundle store
    T,           \* localize.T, the bound translate function
    lcall        \* the last localize operation, its inputs and its outcome

webVars == <<pc, ctxStatus, statusSets, cacheHeader, emitted, outErr, call>>
locVars == <<env, store, T, lcall>>
vars == <<pc, ctxStatus, statusSets, cacheHeader, emitted, outErr, call, env, store, T, lcall>>

Last(s) == s[Len(s)]

(***************************************************************************)
(* Bounds of the model.                                                    *)
(***************************************************************************)
\* responses a handler may emit in one request before it returns or faults
MaxEmits == 1
\* failures one validator run reports
MaxFailures == 2
\* records of one inline translation document
MaxRecords == 2

(***************************************************************************)
(* Package errors (aErrors): the codes, the messages and AppError.         *)
(***************************************************************************)
APP_ERROR_CODE == 500
VALIDATION_ERROR_CODE == 409
UNAUTHORIZED_ERROR_CODE == 401
APP_ERROR_MSG == "Application Error"
VALIDATION_ERROR_MSG == "Validation Error"
UNAUTHORIZED_ERROR_MSG == "Unauthorized"

\* the initial status of a response
STATUS_OK == 200

NilErr == [kind |-> "nil", code |-> 0, msg |-> ""]
AppCodes == {0, 404, APP_ERROR_CODE}
ErrTexts == {"m1", "m2"}
AppErrors == [kind : {"app"}, code : AppCodes, msg : ErrTexts]
OtherErrors == [kind : {"other"}, code : {0}, msg : ErrTexts]
\* the error values a handler passes: nil, an *AppError, any other error
ErrorValues == {NilErr} \cup AppErrors \cup OtherErrors

\* (*AppError).ErrorCode()
ErrorCode(e) == e.code
\* error.Error()
ErrorText(e) == e.msg

(***************************************************************************)
(* The response primitives.  A serve call is the pair of a SetStatus and   *)
(* the MessageResponse handed to ServeJson.                                *)
(***************************************************************************)
MessageResponse(msgs) == [Kind |-> "messages", Messages |-> msgs]

ServeMessagesWithStatus(status, msgs) ==
    <<[SetStatus |-> status, Json |-> MessageResponse(msgs)]>>

ServeMessageWithStatus(status, msg) == ServeMessagesWithStatus(status, <<msg>>)

\* the effect of a sequence of serve calls on the response
RECURSIVE StatusAfter(_, _)
StatusAfter(status, serves) ==
    IF serves = <<>> THEN status
    ELSE StatusAfter(Head(serves).SetStatus, Tail(serves))

RECURSIVE EmissionsOf(_)
EmissionsOf(serves) ==
    IF serves = <<>> THEN <<>>
    ELSE <<[Status |-> Head(serves).SetStatus, Json |-> Head(serves).Json]>>
            \o EmissionsOf(Tail(serves))

Respond(serves) ==
    /\ ctxStatus' = StatusAfter(ctxStatus, serves)
    /\ statusSets' = statusSets + Len(serves)
    /\ emitted' = emitted \o EmissionsOf(serves)

\* what an operation saw on entry
Entry(op, arg) ==
    [op |-> op, arg |-> arg, emitsBefore |-> Len(emitted), setsBefore |-> statusSets,
     errBefore |-> outErr, ret |-> "none"]

Running == pc = "running" /\ Len(emitted) < MaxEmits

(***************************************************************************)
(* ServeError, ServeErrorResponse, ServeAppError, ServeUnAuthorized.       *)
(***************************************************************************)
ServeErrorServes(err) ==
    IF err.kind = "app"
    THEN IF ErrorCode(err) # 0
         THEN ServeMessageWithStatus(ErrorCode(err), ErrorText(err))
         ELSE ServeMessageWithStatus(APP_ERROR_CODE, ErrorText(err))
    ELSE ServeMessageWithStatus(APP_ERROR_CODE, APP_ERROR_MSG)

\* a slip that drops the ErrorCode() test: every AppError is served with the default code
ServeErrorResponseServes_NoCode(err) ==
    IF err.kind = "app"
    THEN ServeMessageWithStatus(APP_ERROR_CODE, ErrorText(err))
    ELSE ServeMessageWithStatus(APP_ERROR_CODE, ErrorText(err))

\* a slip that copies ServeError's default branch: the fixed generic message
ServeErrorResponseServes_Generic(err) == ServeErrorServes(err)

\* the serve call of ServeErrorResponse for a non-nil err
ServeErrorResponseServes(err) ==
    IF err.kind = "app"
    THEN IF ErrorCode(err) # 0
         THEN ServeMessageWithStatus(ErrorCode(err), ErrorText(err))
         ELSE ServeMessageWithStatus(APP_ERROR_CODE, ErrorText(err))
    ELSE ServeMessageWithStatus(APP_ERROR_CODE, ErrorText(err))

ServeAppErrorServes == ServeMessageWithStatus(APP_ERROR_CODE, APP_ERROR_MSG)

ServeError ==
    \E err \in ErrorValues :
        /\ Running
        /\ Respond(ServeErrorServes(err))
        /\ call' = Entry("ServeError", err)
        /\ UNCHANGED <<pc, cacheHeader, outErr, env, store, T, lcall>>

\* err.Error() on a nil error is a nil dereference: the handler panics before serving
ServeErrorResponse ==
    \E err \in ErrorValues :
        /\ Running
        /\ call' = Entry("ServeErrorResponse", err)
        /\ IF err.kind = "nil"
           THEN /\ pc' = "panicking"
                /\ UNCHANGED <<ctxStatus, statusSets, emitted>>
           ELSE /\ Respond(ServeErrorResponseServes(err))
                /\ pc' = pc
        /\ UNCHANGED <<cacheHeader, outErr, env, store, T, lcall>>

ServeAppError ==
    /\ Running
    /\ Respond(ServeAppErrorServes)
    /\ call' = Entry("ServeAppError", NilErr)
    /\ UNCHANGED <<pc, cacheHeader, outErr, env, store, T, lcall>>

ServeUnAuthorized ==
    /\ Running
    /\ Respond(ServeMessageWithStatus(UNAUTHORIZED_ERROR_CODE, UNAUTHORIZED_ERROR_MSG))
    /\ call' = Entry("ServeUnAuthorized", NilErr)
    /\ UNCHANGED <<pc, cacheHeader, outErr, env, store, T, lcall>>

(***************************************************************************)
(* CacheOutput, ServeJsonWithCache.                                        *)
(***************************************************************************)
CacheSeconds == {0, 60}

\* fmt.Sprintf("private, must-revalidate, max-age=%d", seconds); <<>> is no header
CacheOutput(seconds) == <<"private, must-revalidate, max-age=", seconds>>

ServeJsonWithCache ==
    \E secondsToCache \in CacheSeconds :
        /\ Running
        /\ cacheHeader' = IF secondsToCache > 0 THEN CacheOutput(secondsToCache)
                          ELSE cacheHeader
        /\ emitted' = Append(emitted,
                        [Status |-> ctxStatus, Json |-> [Kind |-> "model", Messages |-> <<>>]])
        /\ call' = Entry("ServeJsonWithCache", secondsToCache)
        /\ UNCHANGED <<pc, ctxStatus, statusSets, outErr, env, store, T, lcall>>

(***************************************************************************)
(* ParseAndValidate.  The target structure is its declared fields, each    *)
(* with a tag (a set of key/value pairs); the binder and the validator are *)
(* the framework's and give their results as inputs.                       *)
(***************************************************************************)
FieldNames == {"A", "B"}
CustomOf(name) == IF name = "A" THEN "custom A" ELSE "custom B"
\* a field's tag: no "error" key, error:"" or error:"custom <name>"
TagsOf(name) == {{}, {<<"error", "">>}, {<<"error", CustomOf(name)>>}}
FieldDecls == UNION {[Name : {n}, Tag : TagsOf(n)] : n \in FieldNames}

\* the structures: one or two declared fields with distinct names, in either order
StructTypes ==
    {<<f>> : f \in FieldDecls}
    \cup {<<f, g>> : <<f, g>> \in {p \in FieldDecls \X FieldDecls : p[1].Name # p[2].Name}}

\* reflect.StructTag.Get: the value of the key, "" when the tag has no such key
TagGet(tag, key) ==
    IF \E p \in tag : p[1] = key THEN (CHOOSE p \in tag : p[1] = key)[2] ELSE ""

\* validation.ValidationError: the failed field and the validator's message for it
ValidatorMessage(name) == IF name = "A" THEN "m_A" ELSE "m_B"
ValidationErrors == {[Field |-> n, Message |-> ValidatorMessage(n)] : n \in FieldNames}
ErrorLists == UNION {[1..k -> ValidationErrors] : k \in 1..MaxFailures}

\* valid.Valid(params): a fault, valid, or invalid with the reported failures
ValidOutcomes ==
    {[err |-> TRUE, ok |-> FALSE, Errors |-> <<>>],
     [err |-> FALSE, ok |-> TRUE, Errors |-> <<>>]}
    \cup {[err |-> FALSE, ok |-> FALSE, Errors |-> es] : es \in ErrorLists}

MapPut(m, k, v) == [x \in DOMAIN m \cup {k} |-> IF x = k THEN v ELSE m[x]]

\* the loop over val.NumField() filling messages2
RECURSIVE BuildMessages2(_, _, _)
BuildMessages2(fields, i, messages2) ==
    IF i > Len(fields) THEN messages2
    ELSE BuildMessages2(fields, i + 1,
            MapPut(messages2, fields[i].Name, TagGet(fields[i].Tag, "error")))

\* the loop over valid.Errors filling errors
RECURSIVE BuildErrors(_, _, _)
BuildErrors(validErrors, messages2, errors) ==
    IF validErrors = <<>> THEN errors
    ELSE LET err == Head(validErrors)
         IN  BuildErrors(Tail(validErrors), messages2,
                IF err.Field \in DOMAIN messages2
                THEN Append(errors, messages2[err.Field])
                ELSE Append(errors, err.Message))

\* the failures of the validator that name the field, in report order
FailuresOn(validErrors, name) == SelectSeq(validErrors, LAMBDA e : e.Field = name)

RECURSIVE DeclOrderErrors(_, _, _, _)
DeclOrderErrors(fields, i, validErrors, messages2) ==
    IF i > Len(fields)
    THEN BuildErrors(SelectSeq(validErrors, LAMBDA e : e.Field \notin DOMAIN messages2),
                     messages2, <<>>)
    ELSE BuildErrors(FailuresOn(validErrors, fields[i].Name), messages2, <<>>)
            \o DeclOrderErrors(fields, i + 1, validErrors, messages2)

\* a slip that walks the declared fields instead of valid.Errors
ValidationMessages_DeclOrder(fields, validErrors) ==
    DeclOrderErrors(fields, 1, validErrors, BuildMessages2(fields, 1, <<>>))

\* the message list of the ok == false branch
ValidationMessages(fields, validErrors) ==
    BuildErrors(validErrors, BuildMessages2(fields, 1, <<>>), <<>>)

\* a slip that drops the return after the binding failure's response
ParseAndValidateResult_NoReturn(fields, bindErr, valid) ==
    LET generic == ServeMessageWithStatus(VALIDATION_ERROR_CODE, VALIDATION_ERROR_MSG)
        first == IF bindErr THEN generic ELSE <<>>
    IN  IF valid.err THEN [ret |-> FALSE, serves |-> first \o generic]
        ELSE IF valid.ok = FALSE
        THEN [ret |-> FALSE,
              serves |-> first \o ServeMessagesWithStatus(VALIDATION_ERROR_CODE,
                                    ValidationMessages(fields, valid.Errors))]
        ELSE [ret |-> TRUE, serves |-> first]

\* the return value and the serve calls of ParseAndValidate
ParseAndValidateResult(fields, bindErr, valid) ==
    IF bindErr
    THEN [ret |-> FALSE,
          serves |-> ServeMessageWithStatus(VALIDATION_ERROR_CODE, VALIDATION_ERROR_MSG)]
    ELSE IF valid.err
    THEN [ret |-> FALSE,
          serves |-> ServeMessageWithStatus(VALIDATION_ERROR_CODE, VALIDATION_ERROR_MSG)]
    ELSE IF valid.ok = FALSE
    THEN [ret |-> FALSE,
          serves |-> ServeMessagesWithStatus(VALIDATION_ERROR_CODE,
                        ValidationMessages(fields, valid.Errors))]
    ELSE [ret |-> TRUE, serves |-> <<>>]

\* this.ParseForm fails and the validator never runs, or it binds and the validator runs
ParseInputs ==
    {[bindErr |-> TRUE, valid |-> [err |-> FALSE, ok |-> FALSE, Errors |-> <<>>]]}
    \cup {[bindErr |-> FALSE, valid |-> v] : v \in ValidOutcomes}

ParseAndValidate ==
    \E fields \in StructTypes, in \in ParseInputs :
        LET bindErr == in.bindErr
            valid == in.valid
            r == ParseAndValidateResult(fields, bindErr, valid)
        IN  /\ Running
            /\ Respond(r.serves)
            /\ call' = [Entry("ParseAndValidate",
                              [fields |-> fields, bindErr |-> bindErr, valid |-> valid])
                        EXCEPT !.ret = r.ret]
            /\ UNCHANGED <<pc, cacheHeader, outErr, env, store, T, lcall>>

(***************************************************************************)
(* The handler's own steps and CatchPanic, the deferred guard.             *)
(***************************************************************************)
\* the error helper.CatchPanic builds from the recovered value
PanicErr == [kind |-> "other", code |-> 0, msg |-> "panic"]

\* helper.CatchPanic(err, UUID, functionName): whether a panic was recovered, and *err
HelperCatchPanic(panicking, err) ==
    IF panicking THEN [recovered |-> TRUE, err |-> PanicErr]
    ELSE [recovered |-> FALSE, err |-> err]

NewRequest ==
    /\ pc \in {"idle", "done"}
    /\ pc' = "running"
    /\ ctxStatus' = STATUS_OK
    /\ statusSets' = 0
    /\ cacheHeader' = <<>>
    /\ emitted' = <<>>
    /\ outErr' = NilErr
    /\ call' = Entry("NewRequest", NilErr)
    /\ UNCHANGED locVars

\* the handler assigns its named error result
SetErr ==
    \E err \in {[kind |-> "other", code |-> 0, msg |-> "m1"]} :
        /\ pc = "running"
        /\ outErr = NilErr
        /\ outErr' = err
        /\ call' = Entry("SetErr", err)
        /\ UNCHANGED <<pc, ctxStatus, statusSets, cacheHeader, emitted, env, store, T, lcall>>

\* a runtime fault in the handler's own code
HandlerFault ==
    /\ pc = "running"
    /\ pc' = "panicking"
    /\ call' = Entry("HandlerFault", NilErr)
    /\ UNCHANGED <<ctxStatus, statusSets, cacheHeader, emitted, outErr, env, store, T, lcall>>

HandlerReturn ==
    /\ pc = "running"
    /\ pc' = "returning"
    /\ call' = Entry("HandlerReturn", NilErr)
    /\ UNCHANGED <<ctxStatus, statusSets, cacheHeader, emitted, outErr, env, store, T, lcall>>

\* CatchPanic serves the generic application error when a panic was recovered
CatchPanicServes(recovered) == IF recovered THEN ServeAppErrorServes ELSE <<>>

CatchPanic ==
    LET h == HelperCatchPanic(pc = "panicking", outErr)
    IN  /\ pc \in {"panicking", "returning"}
        /\ pc' = "done"
        /\ outErr' = h.err
        /\ Respond(CatchPanicServes(h.recovered))
        /\ call' = Entry("CatchPanic", pc = "panicking")
        /\ UNCHANGED <<cacheHeader, env, store, T, lcall>>

(***************************************************************************)
(* Package localize.  A name is its sequence of tokens, a path the         *)
(* sequence of the names between its slashes (an empty name is a doubled   *)
(* or trailing slash), so that fmt.Sprintf("%s/%s", directory, name) is    *)
(* Append and == on paths is string equality.                              *)
(***************************************************************************)
I18N == <<"i18n">>
G == <<"g">>
W == <<"w">>
LIB == <<"lib">>
X == <<"x">>
SUB == <<"sub">>
EMPTY == <<>>
EN_JSON == <<"en", ".", "json">>
FR_JSON == <<"fr", ".", "json">>
DE_JSON == <<"de", ".", "json">>
DEEP_JSON == <<"deep", ".", "json">>
ZZ_JSON == <<"zz", ".", "json">>
NOTES_TXT == <<"notes", ".", "txt">>
JSON_EXT == <<".", "json">>

\* path.Ext: the suffix of the name that begins at its last dot, empty without a dot
Ext(name) ==
    LET dots == {i \in 1..Len(name) : name[i] = "."}
    IN  IF dots = {} THEN <<>>
        ELSE SubSeq(name, CHOOSE i \in dots : \A j \in dots : j <= i, Len(name))

Dir(name) == [Name |-> name, IsDir |-> TRUE]
File(name) == [Name |-> name, IsDir |-> FALSE]

\* the directories of the file system, by resolved path; jsonDir adds a directory
\* named zz.json inside /g/w/i18n
Dirs(e) ==
    {<<G>>, <<G, LIB>>, <<G, LIB, I18N>>, <<G, W>>, <<G, W, I18N>>, <<G, W, I18N, SUB>>,
     <<G, W, X>>, <<G, W, X, I18N>>}
    \cup (IF e.jsonDir THEN {<<G, W, I18N, ZZ_JSON>>} ELSE {})

\* the entries of a directory, sorted by name as ioutil.ReadDir returns them
Listing(e, p) ==
    CASE p = <<G>> -> <<Dir(LIB), Dir(W)>>
      [] p = <<G, LIB>> -> <<Dir(I18N)>>
      [] p = <<G, LIB, I18N>> -> <<File(DE_JSON)>>
      [] p = <<G, W>> -> <<Dir(I18N), Dir(X)>>
      [] p = <<G, W, I18N>> ->
            <<File(EN_JSON), File(NOTES_TXT), Dir(SUB)>>
                \o (IF e.jsonDir THEN <<Dir(ZZ_JSON)>> ELSE <<>>)
      [] p = <<G, W, I18N, SUB>> -> <<File(DEEP_JSON)>>
      [] p = <<G, W, X>> -> <<Dir(I18N)>>
      [] p = <<G, W, X, I18N>> -> <<File(FR_JSON)>>
      [] OTHER -> <<>>

\* the regular files with the .json extension
JsonFiles ==
    {<<G, LIB, I18N, DE_JSON>>, <<G, W, I18N, EN_JSON>>, <<G, W, I18N, SUB, DEEP_JSON>>,
     <<G, W, X, I18N, FR_JSON>>}

AllDirs == Dirs([jsonDir |-> TRUE])

\* the file system resolves a path by its non-empty names
Resolve(path) == SelectSeq(path, LAMBDA n : n # EMPTY)

PWD == <<G, W>>
\* GOPATH: unset, /g, /g/ , /g/w, /g/w/
GoPaths == {<<>>, <<G>>, <<G, EMPTY>>, <<G, W>>, <<G, W, EMPTY>>}

\* the directories that may be unreadable: a root, a resource folder, others on the way
Unreadables ==
    {{}, {<<G>>}, {<<G, W>>}, {<<G, W, I18N>>}, {<<G, W, X>>}, {<<G, LIB>>}}

\* what may be wrong with the resource files: a malformed file, a directory named *.json
Hazards ==
    {[jsonDir |-> FALSE, corrupt |-> {}],
     [jsonDir |-> FALSE, corrupt |-> {<<G, W, I18N, EN_JSON>>}],
     [jsonDir |-> FALSE, corrupt |-> {<<G, W, X, I18N, FR_JSON>>}],
     [jsonDir |-> TRUE, corrupt |-> {}]}

Envs ==
    {[pwd |-> PWD, gopath |-> g, jsonDir |-> h.jsonDir, corrupt |-> h.corrupt,
      unreadable |-> u] : g \in GoPaths, h \in Hazards, u \in Unreadables}

\* ioutil.ReadDir
ReadDir(e, path) ==
    LET p == Resolve(path)
    IN  IF p \in Dirs(e) /\ p \notin e.unreadable
        THEN [err |-> FALSE, fileInfos |-> Listing(e, p)]
        ELSE [err |-> TRUE, fileInfos |-> <<>>]

\* the walk so far: the folders handed to loadTranslationFiles, the files handed to
\* i18n.MustLoadTranslationFile, those it loaded, and whether it panicked
NoWalk == [visits |-> <<>>, attempts |-> <<>>, loaded |-> <<>>, panicked |-> FALSE]

\* i18n.MustLoadTranslationFile: loads a readable, well-formed file and panics otherwise
MustLoadTranslationFile(e, fileName, st) ==
    LET p == Resolve(fileName)
        st1 == [st EXCEPT !.attempts = Append(@, fileName)]
    IN  IF p \in JsonFiles /\ p \notin e.corrupt
        THEN [st1 EXCEPT !.loaded = Append(@, fileName)]
        ELSE [st1 EXCEPT !.panicked = TRUE]

\* the loop of loadTranslationFiles over fileInfos
RECURSIVE loadTranslationFilesLoop(_, _, _, _)
loadTranslationFilesLoop(e, directory, fileInfos, st) ==
    IF fileInfos = <<>> \/ st.panicked THEN st
    ELSE LET fileInfo == Head(fileInfos)
         IN  loadTranslationFilesLoop(e, directory, Tail(fileInfos),
                IF Ext(fileInfo.Name) # JSON_EXT THEN st
                ELSE MustLoadTranslationFile(e, Append(directory, fileInfo.Name), st))

\* a slip that takes a directory-read failure of a resource folder as fatal
loadTranslationFiles_Fatal(e, directory, st) ==
    LET r == ReadDir(e, directory)
        st0 == [st EXCEPT !.visits = Append(@, directory)]
    IN  IF r.err THEN [st0 EXCEPT !.panicked = TRUE]
        ELSE loadTranslationFilesLoop(e, directory, r.fileInfos, st0)

loadTranslationFiles(e, directory, st) ==
    LET r == ReadDir(e, directory)
        st0 == [st EXCEPT !.visits = Append(@, directory)]
    IN  IF r.err THEN st0
        ELSE loadTranslationFilesLoop(e, directory, r.fileInfos, st0)

RECURSIVE searchDirectory(_, _, _, _)
RECURSIVE searchDirectoryLoop(_, _, _, _, _)

\* the loop of searchDirectory over fileInfos
searchDirectoryLoop(e, directory, pwd, fileInfos, st) ==
    IF fileInfos = <<>> \/ st.panicked THEN st
    ELSE LET fileInfo == Head(fileInfos)
             fullPath == Append(directory, fileInfo.Name)
         IN  searchDirectoryLoop(e, directory, pwd, Tail(fileInfos),
                IF ~fileInfo.IsDir THEN st
                ELSE IF fullPath = pwd THEN st
                ELSE IF fileInfo.Name = I18N THEN loadTranslationFiles(e, fullPath, st)
                ELSE searchDirectory(e, fullPath, pwd, st))

searchDirectory(e, directory, pwd, st) ==
    LET r == ReadDir(e, directory)
    IN  IF st.panicked \/ r.err THEN st
        ELSE searchDirectoryLoop(e, directory, pwd, r.fileInfos, st)

(***************************************************************************)
(* Locales, i18n.Tfunc and the two load entry points.                      *)
(***************************************************************************)
Locales == {"en-US", "xx"}
\* locale.New accepts the identifier
ValidLocale(l) == l = "en-US"

NilT == [bound |-> FALSE, locale |-> "", default |-> ""]

\* i18n.Tfunc(localeID, fallback): the function it returns, and whether it reports
\* that neither identifier is a locale
Tfunc(localeID, fallback) ==
    [T |-> [bound |-> TRUE, locale |-> localeID, default |-> fallback],
     err |-> ~ValidLocale(localeID) /\ ~ValidLocale(fallback)]

Records == {"r1", "bad"}
\* translation.NewTranslation fails on the record
BadRecord(r) == r = "bad"
\* a translation document: whether json.Unmarshal parses it, and its records
Documents ==
    {[parses |-> FALSE, records |-> <<>>]}
    \cup {[parses |-> TRUE, records |-> rs] :
            rs \in UNION {[1..k -> Records] : k \in 0..MaxRecords}}

NoStore == [inline |-> {}, files |-> {}]

\* a slip that skips a failing record instead of returning its error
RECURSIVE LoadJSONLoop_Skip(_, _, _)
LoadJSONLoop_Skip(userLocale, records, inline) ==
    IF records = <<>> THEN [outcome |-> "done", inline |-> inline]
    ELSE IF BadRecord(Head(records)) THEN LoadJSONLoop_Skip(userLocale, Tail(records), inline)
    ELSE IF ~ValidLocale(userLocale) THEN [outcome |-> "panic", inline |-> inline]
    ELSE LoadJSONLoop_Skip(userLocale, Tail(records),
                           inline \cup {<<userLocale, Head(records)>>})

\* the loop of LoadJSON over tranDocuments
RECURSIVE LoadJSONLoop(_, _, _)
LoadJSONLoop(userLocale, records, inline) ==
    IF records = <<>> THEN [outcome |-> "done", inline |-> inline]
    ELSE IF BadRecord(Head(records)) THEN [outcome |-> "error", inline |-> inline]
    ELSE IF ~ValidLocale(userLocale) THEN [outcome |-> "panic", inline |-> inline]
    ELSE LoadJSONLoop(userLocale, Tail(records), inline \cup {<<userLocale, Head(records)>>})

\* the result of LoadJSON: returned or panicked, the error returned, the store and T
LoadJSONResult(userLocale, doc, st, t) ==
    IF ~doc.parses
    THEN [outcome |-> "returned", err |-> "unmarshal", store |-> st, T |-> t]
    ELSE LET l == LoadJSONLoop(userLocale, doc.records, st.inline)
             st1 == [st EXCEPT !.inline = l.inline]
             f == Tfunc(userLocale, userLocale)
         IN  CASE l.outcome = "error" ->
                    [outcome |-> "returned", err |-> "newTranslation", store |-> st1, T |-> t]
               [] l.outcome = "panic" ->
                    [outcome |-> "panicked", err |-> "none", store |-> st1, T |-> t]
               [] OTHER ->
                    [outcome |-> "returned", err |-> IF f.err THEN "tfunc" ELSE "nil",
                     store |-> st1, T |-> f.T]

\* the walks of LoadFiles: pwd, then GOPATH when it is set
LoadFilesWalk(e) ==
    LET first == searchDirectory(e, e.pwd, e.pwd, NoWalk)
    IN  IF e.gopath # <<>> THEN searchDirectory(e, e.gopath, e.pwd, first) ELSE first

SeqToSet(s) == {s[i] : i \in 1..Len(s)}

\* the result of LoadFiles: as for LoadJSON, and the walk it made
LoadFilesResult(userLocale, defaultLocal, getwdErr, e, st, t) ==
    IF getwdErr
    THEN [outcome |-> "returned", err |-> "getwd", store |-> st, T |-> t, walk |-> NoWalk]
    ELSE LET w == LoadFilesWalk(e)
             st1 == [st EXCEPT !.files = @ \cup {Resolve(f) : f \in SeqToSet(w.loaded)}]
             f == Tfunc(userLocale, defaultLocal)
         IN  IF w.panicked
             THEN [outcome |-> "panicked", err |-> "none", store |-> st1, T |-> t, walk |-> w]
             ELSE [outcome |-> "returned", err |-> IF f.err THEN "tfunc" ELSE "nil",
                   store |-> st1, T |-> f.T, walk |-> w]

LoadJSON ==
    \E userLocale \in Locales, doc \in Documents :
        LET r == LoadJSONResult(userLocale, doc, store, T)
        IN  /\ store' = r.store
            /\ T' = r.T
            /\ lcall' = [op |-> "LoadJSON", locale |-> userLocale, default |-> userLocale,
                         doc |-> doc, getwdErr |-> FALSE, outcome |-> r.outcome,
                         err |-> r.err, walk |-> NoWalk]
            /\ UNCHANGED <<env, pc, ctxStatus, statusSets, cacheHeader, emitted, outErr, call>>

LoadFiles ==
    \E userLocale \in Locales, defaultLocal \in Locales, getwdErr \in BOOLEAN :
        LET r == LoadFilesResult(userLocale, defaultLocal, getwdErr, env, store, T)
        IN  /\ store' = r.store
            /\ T' = r.T
            /\ lcall' = [op |-> "LoadFiles", locale |-> userLocale, default |-> defaultLocal,
                         doc |-> [parses |-> TRUE, records |-> <<>>], getwdErr |-> getwdErr,
                         outcome |-> r.outcome, err |-> r.err, walk |-> r.walk]
            /\ UNCHANGED <<env, pc, ctxStatus, statusSets, cacheHeader, emitted, outErr, call>>

(***************************************************************************)
(* The specifications: the controller serving requests, and the loader.    *)
(***************************************************************************)
NoCall ==
    [op |-> "none", arg |-> NilErr, emitsBefore |-> 0, setsBefore |-> 0,
     errBefore |-> NilErr, ret |-> "none"]

NoLCall ==
    [op |-> "none", locale |-> "", default |-> "", doc |-> [parses |-> TRUE, records |-> <<>>],
     getwdErr |-> FALSE, outcome |-> "none", err |-> "none", walk |-> NoWalk]

InitWeb ==
    /\ pc = "idle"
    /\ ctxStatus = STATUS_OK
    /\ statusSets = 0
    /\ cacheHeader = <<>>
    /\ emitted = <<>>
    /\ outErr = NilErr
    /\ call = NoCall

InitLoad ==
    /\ store = NoStore
    /\ T = NilT
    /\ lcall = NoLCall

\* the environment of a process that never loads translations
NoEnv == [pwd |-> PWD, gopath |-> <<>>, jsonDir |-> FALSE, unreadable |-> {}, corrupt |-> {}]

Init == InitWeb /\ InitLoad /\ env = NoEnv

InitEnv == InitWeb /\ InitLoad /\ env \in Envs

Next ==
    \/ NewRequest
    \/ ServeError
    \/ ServeErrorResponse
    \/ ServeAppError
    \/ ServeUnAuthorized
    \/ ServeJsonWithCache
    \/ ParseAndValidate
    \/ SetErr
    \/ HandlerFault
    \/ HandlerReturn
    \/ CatchPanic

LoadNext ==
    \/ LoadJSON
    \/ LoadFiles

\* the controller serving requests
Spec == Init /\ [][Next]_vars

\* the loader, called at startup in any environment
SpecLoad == InitEnv /\ [][LoadNext]_vars

(***************************************************************************)
(* Properties of the controller, checked under Spec.                       *)
(***************************************************************************)
LastMessages == Last(emitted).Json.Messages

\* C1: ServeErrorResponse of an AppError with code C and message M emits exactly one
\* response: its status is C when C # 0 and APP_ERROR_CODE when C = 0, and its body
\* is the envelope {Messages: [M]}.
C1_AppErrorServed ==
    (call.op = "ServeErrorResponse" /\ call.arg.kind = "app") =>
        /\ Len(emitted) = call.emitsBefore + 1
        /\ statusSets = call.setsBefore + 1
        /\ Last(emitted) =
             [Status |-> IF call.arg.code # 0 THEN call.arg.code ELSE APP_ERROR_CODE,
              Json |-> [Kind |-> "messages", Messages |-> <<call.arg.msg>>]]

\* an AppError without a code has been served with the default code and its own message
C1_Witness ==
    /\ call.op = "ServeErrorResponse"
    /\ call.arg.kind = "app"
    /\ call.arg.code = 0
    /\ Last(emitted).Status = APP_ERROR_CODE
    /\ LastMessages = <<call.arg.msg>>

\* C2: ServeErrorResponse of an error that is not an AppError emits exactly one
\* response with status APP_ERROR_CODE whose single message is the error's own text,
\* not the fixed message of ServeAppError.
C2_OtherErrorServed ==
    (call.op = "ServeErrorResponse" /\ call.arg.kind = "other") =>
        /\ Len(emitted) = call.emitsBefore + 1
        /\ Last(emitted) =
             [Status |-> APP_ERROR_CODE,
              Json |-> [Kind |-> "messages", Messages |-> <<call.arg.msg>>]]

C2_Witness ==
    /\ call.op = "ServeErrorResponse"
    /\ call.arg.kind = "other"
    /\ call.arg.msg # APP_ERROR_MSG
    /\ LastMessages = <<call.arg.msg>>
    /\ ServeAppErrorServes[1].Json.Messages = <<APP_ERROR_MSG>>

\* ParseAndValidate took the ok == false branch
ServedFailures ==
    /\ call.op = "ParseAndValidate"
    /\ ~call.arg.bindErr
    /\ ~call.arg.valid.err
    /\ ~call.arg.valid.ok

Declared(fields, name) == \E i \in 1..Len(fields) : fields[i].Name = name
\* the "error" override the structure declares for the field
OverrideOf(fields, name) ==
    TagGet(fields[CHOOSE i \in 1..Len(fields) : fields[i].Name = name].Tag, "error")

\* C3: for every reported failure on a declared field, the emitted message is the
\* field's override when that is not empty, and the validator's own message, never
\* the empty string, when the override is empty or absent.
C3_EmptyOverrideFallsBack ==
    ServedFailures =>
        \A i \in 1..Len(call.arg.valid.Errors) :
            LET e == call.arg.valid.Errors[i]
            IN  Declared(call.arg.fields, e.Field) =>
                    /\ i <= Len(LastMessages)
                    /\ IF OverrideOf(call.arg.fields, e.Field) # ""
                       THEN LastMessages[i] = OverrideOf(call.arg.fields, e.Field)
                       ELSE LastMessages[i] = e.Message /\ LastMessages[i] # ""

\* C4: the emitted list has one message per reported failure, and the i-th message is
\* the one of the i-th reported failure (its field's override or its validator
\* message), whatever the declaration order of the fields.
C4_ReportOrder ==
    ServedFailures =>
        /\ Len(LastMessages) = Len(call.arg.valid.Errors)
        /\ \A i \in 1..Len(call.arg.valid.Errors) :
            LET e == call.arg.valid.Errors[i]
            IN  /\ i <= Len(LastMessages)
                /\ \/ LastMessages[i] = e.Message
                   \/ /\ Declared(call.arg.fields, e.Field)
                      /\ LastMessages[i] = OverrideOf(call.arg.fields, e.Field)

\* failures reported on B then A for a structure that declares A then B, both overridden
C4_Witness ==
    /\ ServedFailures
    /\ Len(call.arg.fields) = 2
    /\ call.arg.fields[1].Name = "A"
    /\ Len(call.arg.valid.Errors) = 2
    /\ call.arg.valid.Errors[1].Field = "B"
    /\ call.arg.valid.Errors[2].Field = "A"
    /\ LastMessages = <<"custom B", "custom A">>

\* C5: a call of ParseAndValidate returns true having set no status and emitted no
\* body, or returns false having set the status once, to VALIDATION_ERROR_CODE, and
\* emitted one body; after a binding failure or a validator fault that body is the
\* fixed generic validation message.
C5_OneResponseOrNone ==
    call.op = "ParseAndValidate" =>
        /\ \/ /\ call.ret = TRUE
              /\ statusSets = call.setsBefore
              /\ Len(emitted) = call.emitsBefore
           \/ /\ call.ret = FALSE
              /\ statusSets = call.setsBefore + 1
              /\ Len(emitted) = call.emitsBefore + 1
              /\ Last(emitted).Status = VALIDATION_ERROR_CODE
              /\ ctxStatus = VALIDATION_ERROR_CODE
        /\ (call.arg.bindErr \/ call.arg.valid.err) =>
              /\ call.ret = FALSE
              /\ Last(emitted).Json = MessageResponse(<<VALIDATION_ERROR_MSG>>)

\* a binding failure has been answered with the generic validation message
C5_Witness ==
    /\ call.op = "ParseAndValidate"
    /\ call.arg.bindErr
    /\ call.ret = FALSE
    /\ Len(emitted) = call.emitsBefore + 1
    /\ LastMessages = <<VALIDATION_ERROR_MSG>>

\* C6: after the guard, a request whose handler faulted has exactly one emitted
\* response, with status APP_ERROR_CODE and the generic message, and a non-nil error
\* in outErr, whatever the handler did before the fault; without a fault the guard
\* has emitted nothing and left outErr as it was.
C6_FaultGivesOneResponse ==
    call.op = "CatchPanic" =>
        IF call.arg
        THEN /\ Len(emitted) = 1
             /\ emitted[1] = [Status |-> APP_ERROR_CODE,
                              Json |-> MessageResponse(<<APP_ERROR_MSG>>)]
             /\ outErr # NilErr
        ELSE /\ Len(emitted) = call.emitsBefore
             /\ outErr = call.errBefore

(***************************************************************************)
(* Properties of the loader, checked under SpecLoad.                       *)
(***************************************************************************)
NoDuplicates(s) == \A i, j \in 1..Len(s) : i # j => s[i] # s[j]

Walked == lcall.op = "LoadFiles" /\ ~lcall.getwdErr

\* C7: when GOPATH and the working directory are the same path, LoadFiles hands every
\* i18n folder to loadTranslationFiles at most once and loads each of its files at
\* most once.
C7_SameRootLoadedOnce ==
    (Walked /\ env.gopath = env.pwd) =>
        /\ NoDuplicates(lcall.walk.visits)
        /\ NoDuplicates(lcall.walk.attempts)

ParentOf(path) == SubSeq(path, 1, Len(path) - 1)
\* the path names an entry of its parent directory that is not a directory
IsRegularFile(e, path) ==
    LET r == ReadDir([e EXCEPT !.unreadable = {}], ParentOf(path))
    IN  \E i \in 1..Len(r.fileInfos) :
            r.fileInfos[i].Name = Last(path) /\ ~r.fileInfos[i].IsDir

\* C8: every i18n directory met by the walk is handed to loadTranslationFiles and never
\* searched as a generic directory, and what is loaded from it is exactly its
\* immediate children that are files with the .json extension: no subdirectory of
\* it, and nothing inside one, is handed to the loader.
C8_OnlyJsonFilesOfFolder ==
    Walked =>
        /\ \A i \in 1..Len(lcall.walk.visits) : Last(lcall.walk.visits[i]) = I18N
        /\ \A i \in 1..Len(lcall.walk.attempts) :
            LET f == lcall.walk.attempts[i]
            IN  /\ ParentOf(f) \in SeqToSet(lcall.walk.visits)
                /\ Ext(Last(f)) = JSON_EXT
                /\ IsRegularFile(env, f)
        /\ lcall.outcome = "returned" =>
            \A i \in 1..Len(lcall.walk.visits) :
                LET r == ReadDir(env, lcall.walk.visits[i])
                IN  \A k \in 1..Len(r.fileInfos) :
                        (~r.fileInfos[k].IsDir /\ Ext(r.fileInfos[k].Name) = JSON_EXT)
                        => Append(lcall.walk.visits[i], r.fileInfos[k].Name)
                                \in SeqToSet(lcall.walk.loaded)

\* the first record of the document that translation.NewTranslation rejects, 0 if none
FirstBad(records) ==
    IF \E k \in 1..Len(records) : BadRecord(records[k])
    THEN CHOOSE k \in 1..Len(records) :
            BadRecord(records[k]) /\ \A j \in 1..(k - 1) : ~BadRecord(records[j])
    ELSE 0

\* the last call was a LoadJSON that met a parse or record-construction failure
LoadJSONFailed ==
    /\ lcall.op = "LoadJSON"
    /\ \/ ~lcall.doc.parses
       \/ /\ FirstBad(lcall.doc.records) > 0
          /\ FirstBad(lcall.doc.records) = 1 \/ ValidLocale(lcall.locale)

\* the entries of the records before the failing one
EntriesBeforeFailure ==
    IF ~lcall.doc.parses THEN {}
    ELSE {<<lcall.locale, lcall.doc.records[j]>> : j \in 1..(FirstBad(lcall.doc.records) - 1)}

\* the last call was a LoadFiles that handed a malformed resource file to the loader
LoadFilesParseFailed ==
    /\ Walked
    /\ \E i \in 1..Len(lcall.walk.attempts) : Resolve(lcall.walk.attempts[i]) \in env.corrupt

LoadedFiles == {Resolve(f) : f \in SeqToSet(lcall.walk.loaded)}

\* what holds of a failed load whichever way it ends: the entries registered before
\* the failure, and no others, are added to the store, and T is left as it was
FailedLoadKeepsState ==
    /\ LoadJSONFailed' =>
        /\ store' = [store EXCEPT !.inline = @ \cup EntriesBeforeFailure']
        /\ T' = T
    /\ LoadFilesParseFailed' =>
        /\ store' = [store EXCEPT !.files = @ \cup LoadedFiles']
        /\ T' = T

\* C9 as stated: a parse or record-construction failure in LoadJSON or in LoadFiles
\* aborts the call and comes back as a returned error value; the entries registered
\* before it remain and T is not rebound.
C9_FailureReturnsError ==
    [][/\ FailedLoadKeepsState
       /\ (LoadJSONFailed' \/ LoadFilesParseFailed') =>
            /\ lcall'.outcome = "returned"
            /\ lcall'.err \in {"unmarshal", "newTranslation"}]_vars

\* C9 as the code has it: LoadJSON returns the failure as its error; LoadFiles does
\* not return, the panic of i18n.MustLoadTranslationFile leaves it; in both the
\* entries registered before the failure remain and T is not rebound.
C9_FailureAbortsLoad ==
    [][/\ FailedLoadKeepsState
       /\ LoadJSONFailed' =>
            /\ lcall'.outcome = "returned"
            /\ lcall'.err \in {"unmarshal", "newTranslation"}
       /\ LoadFilesParseFailed' =>
            /\ lcall'.outcome = "panicked"
            /\ lcall'.err = "none"]_vars

\* LoadFiles has panicked on a malformed file after loading another, with T bound by
\* an earlier call and entries of an earlier LoadJSON in the store
C9_Witness ==
    /\ LoadFilesParseFailed
    /\ lcall.outcome = "panicked"
    /\ lcall.walk.loaded # <<>>
    /\ LoadedFiles \subseteq store.files
    /\ store.inline # {}
    /\ T.bound

\* the directories below a root, as paths written from the root
Below(e, root) ==
    {root \o SubSeq(d, Len(Resolve(root)) + 1, Len(d)) :
        d \in {x \in Dirs(e) : /\ Len(x) > Len(Resolve(root))
                               /\ SubSeq(x, 1, Len(Resolve(root))) = Resolve(root)}}

Roots(e) == {e.pwd} \cup (IF e.gopath # <<>> THEN {e.gopath} ELSE {})

\* the i18n folders outside every unreadable subtree: each directory from the root down
\* to the folder's parent is readable, none below the root is the working directory
\* or an i18n folder, and the folder is not the working directory
ExpectedFolders(e) ==
    UNION {{p \in Below(e, root) :
                /\ Last(p) = I18N
                /\ p # e.pwd
                /\ \A k \in Len(root)..(Len(p) - 1) :
                    LET q == SubSeq(p, 1, k)
                    IN  /\ ~ReadDir(e, q).err
                        /\ k > Len(root) => (q # e.pwd /\ Last(q) # I18N)}
           : root \in Roots(e)}

\* no file handed to the loader made it panic
NoLoadFailure ==
    \A i \in 1..Len(lcall.walk.attempts) :
        Resolve(lcall.walk.attempts[i]) \in JsonFiles \ env.corrupt

\* C10: a directory-read failure skips only that directory's subtree: every i18n folder
\* outside it is visited and its .json files loaded, the second root is walked, and
\* LoadFiles goes on to bind T to (userLocale, defaultLocal) and returns no error for
\* the read failure.
C10_ReadFailureSkipsSubtree ==
    (Walked /\ NoLoadFailure) =>
        /\ lcall.outcome = "returned"
        /\ lcall.err \in {"nil", "tfunc"}
        /\ T = [bound |-> TRUE, locale |-> lcall.locale, default |-> lcall.default]
        /\ \A p \in ExpectedFolders(env) :
            /\ p \in SeqToSet(lcall.walk.visits)
            /\ LET r == ReadDir(env, p)
               IN  \A k \in 1..Len(r.fileInfos) :
                        (~r.fileInfos[k].IsDir /\ Ext(r.fileInfos[k].Name) = JSON_EXT)
                        => Append(p, r.fileInfos[k].Name) \in SeqToSet(lcall.walk.loaded)

\* /g/w/x cannot be read: the folder beside it and the one under the second root are loaded
C10_Witness ==
    /\ Walked
    /\ lcall.outcome = "returned"
    /\ env.unreadable = {<<G, W, X>>}
    /\ env.gopath = <<G>>
    /\ SeqToSet(lcall.walk.loaded) = {<<G, W, I18N, EN_JSON>>, <<G, LIB, I18N, DE_JSON>>}
    /\ T.bound

====
